---- MODULE Spec2Model ----
(***************************************************************************)
(* A model of the dynamic_dns Caddy app of src/caddyfile.go: the Caddyfile *)
(* adapter parseApp, the lifecycle (Provision, Start, Stop), the discovery *)
(* of reverse-proxy hosts (addReverseProxyCNAMEs) and the reconciliation   *)
(* loop (checkerLoop, updateDNS, updateCNAME).                             *)
(*                                                                         *)
(* Strings are sequences of one-character strings, so that the substring   *)
(* and suffix operations of the code are computed character by character.  *)
(* Durations are counted in milliseconds (Go counts nanoseconds; no value  *)
(* used here is finer than a millisecond).                                 *)
(***************************************************************************)
EXTENDS Integers, Sequences, FiniteSets, TLC

\* ------------------------------------------------------------- bounds

\* The most lines a "domains" block of an input Caddyfile holds.
MaxLines == 2

\* The most reconciliation passes one run of the loop starts.
MaxPasses == 2

\* ------------------------------------------------------------ strings

S_empty == <<>>

S_at == <<"@">>

S_www == <<"w", "w", "w">>

S_api == <<"a", "p", "i">>

S_example_com == <<"e", "x", "a", "m", "p", "l", "e", ".", "c", "o", "m">>

S_other_org == <<"o", "t", "h", "e", "r", ".", "o", "r", "g">>

S_api_example_com == S_api \o <<".">> \o S_example_com

S_www_example_com == S_www \o <<".">> \o S_example_com

S_xexample_com == <<"x">> \o S_example_com

S_www_other_org == S_www \o <<".">> \o S_other_org

S_domains == <<"d", "o", "m", "a", "i", "n", "s">>

S_check_interval ==
    <<"c", "h", "e", "c", "k", "_", "i", "n", "t", "e", "r", "v", "a", "l">>

S_dns_server == <<"d", "n", "s", "_", "s", "e", "r", "v", "e", "r">>

S_host == <<"h", "o", "s", "t">>

S_user == <<"u", "s", "e", "r">>

S_password == <<"p", "a", "s", "s", "w", "o", "r", "d">>

S_ttl == <<"t", "t", "l">>

S_auto_cname == <<"a", "u", "t", "o", "_", "c", "n", "a", "m", "e">>

S_Error == <<"E", "r", "r", "o", "r">>

\* strings.HasSuffix
HasSuffix(s, suffix) ==
    /\ Len(s) >= Len(suffix)
    /\ SubSeq(s, Len(s) - Len(suffix) + 1, Len(s)) = suffix

\* strings.TrimSuffix: s without the trailing suffix, or s itself
TrimSuffix(s, suffix) ==
    IF HasSuffix(s, suffix) THEN SubSeq(s, 1, Len(s) - Len(suffix)) ELSE s

\* strings.Contains
Contains(s, substr) ==
    \E i \in 0..(Len(s) - Len(substr)) : SubSeq(s, i + 1, i + Len(substr)) = substr

\* ---------------------------------------------------------- durations

\* time.Second, in the model's unit
Second == 1000

\* const defaultCheckInterval = 30 * time.Minute
defaultCheckInterval == 30 * 60 * Second

Digits == <<"0", "1", "2", "3", "4", "5", "6", "7", "8", "9">>

IsDigit(c) == \E d \in 1..10 : Digits[d] = c

DigitVal(c) == (CHOOSE d \in 1..10 : Digits[d] = c) - 1

RECURSIVE Atoi(_)
Atoi(s) ==
    IF s = <<>> THEN 0 ELSE 10 * Atoi(SubSeq(s, 1, Len(s) - 1)) + DigitVal(s[Len(s)])

\* The unit suffixes caddy.ParseDuration accepts that are whole milliseconds.
UnitMs(u) ==
    CASE u = <<"m", "s">> -> 1
      [] u = <<"s">> -> Second
      [] u = <<"m">> -> 60 * Second
      [] u = <<"h">> -> 3600 * Second
      [] OTHER -> 0

NumLen(s) ==
    IF \E k \in 1..Len(s) : ~IsDigit(s[k])
    THEN (CHOOSE k \in 1..Len(s) : ~IsDigit(s[k]) /\ \A j \in 1..(k - 1) : IsDigit(s[j])) - 1
    ELSE Len(s)

\* caddy.ParseDuration of one token "[-]<digits><unit>" ("0" needs no unit):
\* [err |-> TRUE] or [err |-> FALSE, dur |-> the duration].
ParseDuration(tok) ==
    LET neg == tok # <<>> /\ tok[1] = "-"
        body == IF neg THEN Tail(tok) ELSE tok
        n == NumLen(body)
        num == SubSeq(body, 1, n)
        unit == SubSeq(body, n + 1, Len(body))
    IN  IF n = 0 THEN [err |-> TRUE, dur |-> 0]
        ELSE IF unit = <<>> /\ Atoi(num) = 0 THEN [err |-> FALSE, dur |-> 0]
        ELSE IF UnitMs(unit) = 0 THEN [err |-> TRUE, dur |-> 0]
        ELSE [err |-> FALSE,
              dur |-> (IF neg THEN -1 ELSE 1) * Atoi(num) * UnitMs(unit)]

\* ------------------------------------------------------------ the App

\* A nil map, which reads as the empty map
NilMap == [z \in {} |-> <<>>]

\* type App: the zero value new(App) yields
NewApp ==
    [Host |-> S_empty, User |-> S_empty, Password |-> S_empty,
     Domains |-> NilMap, CheckInterval |-> 0, TTL |-> 0,
     AutoCNAME |-> FALSE, AutoCNAMEZone |-> S_empty]

\* m[zone] = append(m[zone], names...), on a map that may be nil
AppendNames(m, zone, names) ==
    [z \in (DOMAIN m) \cup {zone} |->
        IF z = zone
        THEN (IF zone \in DOMAIN m THEN m[zone] ELSE <<>>) \o names
        ELSE m[z]]

\* ------------------------------------------------------------ parseApp

(***************************************************************************)
(* The body of a dynamic_dns block is a sequence of lines; a line is       *)
(* [toks, hasBlock, block]: its tokens, and the lines of the { } block     *)
(* that its last token opens, if any. The dispenser walks the tokens:      *)
(* NextArg moves to the next token of the same line if there is one, Val   *)
(* is the token under the cursor, RemainingArgs takes the rest of the      *)
(* line, NextBlock moves to the next token of the block.                   *)
(***************************************************************************)

ParseError(app) == [err |-> TRUE, app |-> app]

\* case "domains": the lines <zone> <names...> of the block
RECURSIVE parseDomains(_, _, _)
parseDomains(app, block, k) ==
    IF k > Len(block) THEN [err |-> FALSE, app |-> app]
    ELSE LET zone == block[k][1]
             args == Tail(block[k])
             names == IF Len(args) = 0 THEN <<S_at>> ELSE args
         IN  IF zone = S_empty THEN ParseError(app)
             ELSE parseDomains(
                     [app EXCEPT !.Domains = AppendNames(app.Domains, zone, names)],
                     block, k + 1)

\* case "dns_server": the tokens of one line of the block, from token i
RECURSIVE parseDNSServerToks(_, _, _)
parseDNSServerToks(app, toks, i) ==
    IF i > Len(toks) THEN [err |-> FALSE, app |-> app]
    ELSE IF toks[i] \notin {S_host, S_user, S_password} THEN ParseError(app)
    ELSE IF i + 1 > Len(toks) THEN ParseError(app)
    ELSE parseDNSServerToks(
            CASE toks[i] = S_host -> [app EXCEPT !.Host = toks[i + 1]]
              [] toks[i] = S_user -> [app EXCEPT !.User = toks[i + 1]]
              [] toks[i] = S_password -> [app EXCEPT !.Password = toks[i + 1]],
            toks, i + 2)

RECURSIVE parseDNSServer(_, _, _)
parseDNSServer(app, block, k) ==
    IF k > Len(block) THEN [err |-> FALSE, app |-> app]
    ELSE LET r == parseDNSServerToks(app, block[k], 1)
         IN  IF r.err THEN r ELSE parseDNSServer(r.app, block, k + 1)

\* case "auto_cname": the zone is stored when NextArg finds NO argument, and
\* what is stored is the token under the cursor, the directive's own name.
\* The result is the App and the number of tokens consumed.
autoCNAME(app, toks, i) ==
    IF ~(i + 1 <= Len(toks))
    THEN [app |-> [app EXCEPT !.AutoCNAMEZone = toks[i]], used |-> 1]
    ELSE [app |-> app, used |-> 2]

\* The loop "for d.NextBlock(0)" from token i of line ln of the body.
RECURSIVE parseBlock(_, _, _, _)
parseBlock(app, body, ln, i) ==
    IF ln > Len(body) THEN [err |-> FALSE, app |-> app]
    ELSE IF i > Len(body[ln].toks) THEN parseBlock(app, body, ln + 1, 1)
    ELSE
    LET toks == body[ln].toks
        tok == toks[i]
        hasArg == i + 1 <= Len(toks)
        opens == i = Len(toks) /\ body[ln].hasBlock
    IN  CASE tok = S_domains ->
               IF opens
               THEN LET r == parseDomains(app, body[ln].block, 1)
                    IN  IF r.err THEN r ELSE parseBlock(r.app, body, ln + 1, 1)
               ELSE parseBlock(app, body, ln, i + 1)
          [] tok = S_check_interval ->
               IF ~hasArg THEN ParseError(app)
               ELSE LET d == ParseDuration(toks[i + 1])
                    IN  IF d.err THEN ParseError(app)
                        ELSE parseBlock([app EXCEPT !.CheckInterval = d.dur],
                                        body, ln, i + 2)
          [] tok = S_dns_server ->
               IF opens
               THEN LET r == parseDNSServer(app, body[ln].block, 1)
                    IN  IF r.err THEN r ELSE parseBlock(r.app, body, ln + 1, 1)
               ELSE parseBlock(app, body, ln, i + 1)
          [] tok = S_ttl ->
               IF ~hasArg THEN ParseError(app)
               ELSE LET d == ParseDuration(toks[i + 1])
                    IN  IF d.err THEN ParseError(app)
                        ELSE parseBlock([app EXCEPT !.TTL = d.dur], body, ln, i + 2)
          [] tok = S_auto_cname ->
               LET r == autoCNAME(app, toks, i)
               IN  parseBlock(r.app, body, ln, i + r.used)
          [] OTHER -> ParseError(app)

\* parseApp: the App the adapter hands to the host as JSON, or an error
parseAppResult(body) == parseBlock(NewApp, body, 1, 1)

\* ------------------------------------------------ addReverseProxyCNAMEs

(***************************************************************************)
(* The HTTP app as the discovery reads it: [err, Servers], err when        *)
(* ctx.App("http") fails, Servers a map from server name to its routes; a  *)
(* route is [HandlersRaw, MatcherSets], HandlersRaw a sequence of JSON     *)
(* texts and MatcherSets a sequence of sequences of matchers               *)
(* [type, hosts]. Go ranges over the Servers map in an unspecified order:  *)
(* the order is an input of the scan.                                      *)
(***************************************************************************)

\* json.Unmarshal(rawHandler, &handler) with handler a map[string]interface{}:
\* an object decodes to its members, null to the nil map, anything else fails.
Unmarshal(raw) ==
    CASE raw = "{\"handler\":\"reverse_proxy\"}" ->
           [err |-> FALSE,
            handler |-> [k \in {"handler"} |-> [type |-> "string", str |-> "reverse_proxy"]]]
      [] raw = "{\"handler\":\"file_server\"}" ->
           [err |-> FALSE,
            handler |-> [k \in {"handler"} |-> [type |-> "string", str |-> "file_server"]]]
      [] raw = "{\"handler\":7}" ->
           [err |-> FALSE,
            handler |-> [k \in {"handler"} |-> [type |-> "float64", str |-> ""]]]
      [] raw = "{}" -> [err |-> FALSE, handler |-> NilMap]
      [] raw = "null" -> [err |-> FALSE, handler |-> NilMap]
      [] raw = "[1]" -> [err |-> TRUE, handler |-> NilMap]
      [] raw = "{\"handler\":" -> [err |-> TRUE, handler |-> NilMap]

\* handlerType, ok := handler["handler"].(string); ok && handlerType == "reverse_proxy"
IsReverseProxy(handler) ==
    /\ "handler" \in DOMAIN handler
    /\ handler["handler"].type = "string"
    /\ handler["handler"].str = "reverse_proxy"

\* hostMatcher, ok := matcher.(caddyhttp.MatchHost): the hosts of the matcher
\* when its dynamic type is MatchHost, none otherwise
matcherHosts(matcher) ==
    IF matcher.type = "MatchHost" THEN matcher.hosts ELSE <<>>

RECURSIVE matcherSetHosts(_, _)
matcherSetHosts(matcherSet, j) ==
    IF j > Len(matcherSet) THEN <<>>
    ELSE matcherHosts(matcherSet[j]) \o matcherSetHosts(matcherSet, j + 1)

\* The hosts of a route in the order the loops of lines 311-322 meet them.
RECURSIVE routeHosts(_, _)
routeHosts(matcherSets, i) ==
    IF i > Len(matcherSets) THEN <<>>
    ELSE matcherSetHosts(matcherSets[i], 1) \o routeHosts(matcherSets, i + 1)

\* A bug: the zone is trimmed without the dot before it
hostName_noDot(host, zone) == TrimSuffix(host, zone)

\* The name stored for a host
hostName(host, zone) == TrimSuffix(host, <<".">> \o zone)

\* a.Domains[zone] = append(a.Domains[zone], name), host by host
RECURSIVE addHosts(_, _, _, _)
addHosts(domains, zone, hosts, k) ==
    IF k > Len(hosts) THEN domains
    ELSE addHosts(AppendNames(domains, zone, <<hostName(hosts[k], zone)>>),
                  zone, hosts, k + 1)

\* The handlers of one route, from handler h: a handler that does not decode
\* returns the error at once, with the map as it then stands.
RECURSIVE scanHandlers(_, _, _, _)
scanHandlers(domains, zone, route, h) ==
    IF h > Len(route.HandlersRaw) THEN [err |-> FALSE, Domains |-> domains]
    ELSE LET u == Unmarshal(route.HandlersRaw[h])
         IN  IF u.err THEN [err |-> TRUE, Domains |-> domains]
             ELSE IF IsReverseProxy(u.handler)
             THEN scanHandlers(addHosts(domains, zone, routeHosts(route.MatcherSets, 1), 1),
                               zone, route, h + 1)
             ELSE scanHandlers(domains, zone, route, h + 1)

RECURSIVE scanRoutes(_, _, _, _)
scanRoutes(domains, zone, routes, r) ==
    IF r > Len(routes) THEN [err |-> FALSE, Domains |-> domains]
    ELSE LET x == scanHandlers(domains, zone, routes[r], 1)
         IN  IF x.err THEN x ELSE scanRoutes(x.Domains, zone, routes, r + 1)

RECURSIVE scanServers(_, _, _, _, _)
scanServers(domains, zone, servers, order, s) ==
    IF s > Len(order) THEN [err |-> FALSE, Domains |-> domains]
    ELSE LET x == scanRoutes(domains, zone, servers[order[s]], 1)
         IN  IF x.err THEN x ELSE scanServers(x.Domains, zone, servers, order, s + 1)

\* addReverseProxyCNAMEs on the map domains: [err, Domains], the error
\* returned and the map a.Domains as the call leaves it.
addReverseProxyCNAMEs(domains, zone, http, order) ==
    IF http.err THEN [err |-> TRUE, Domains |-> domains]
    ELSE scanServers(domains, zone, http.Servers, order, 1)

\* The orders in which a range over a map with these keys can visit them.
RangeOrders(keys) ==
    {o \in [1..Cardinality(keys) -> keys] : \A k \in keys : \E i \in DOMAIN o : o[i] = k}

\* -------------------------------------------------------------- inputs

Line(toks) == [toks |-> toks, hasBlock |-> FALSE, block |-> <<>>]

BlockLine(name, block) == [toks |-> <<name>>, hasBlock |-> TRUE, block |-> block]

\* Lines of a "domains" block: a bare zone, a zone with a name, a second zone.
DomainLines ==
    {<<S_example_com>>, <<S_example_com, S_www>>, <<S_other_org, S_www>>}

DomainBlocks == UNION {[1..n -> DomainLines] : n \in 0..MaxLines}

OneDomain == BlockLine(S_domains, <<<<S_example_com, S_www>>>>)

\* Arguments of check_interval: 0s -1s 999ms 1s 2s, and one that is no duration
IntervalTokens ==
    {<<"0", "s">>, <<"-", "1", "s">>, <<"9", "9", "9", "m", "s">>, <<"1", "s">>,
     <<"2", "s">>, <<"s", "o", "o", "n">>}

\* The Caddyfile bodies the adapter is given.
Caddyfiles ==
    {<<BlockLine(S_domains, b)>> : b \in DomainBlocks}
    \cup {<<OneDomain, Line(<<S_check_interval, t>>)>> : t \in IntervalTokens}
    \cup {<<OneDomain, Line(<<S_check_interval>>)>>,
          <<OneDomain, Line(<<S_auto_cname>>)>>,
          <<OneDomain, Line(<<S_auto_cname, S_example_com>>)>>,
          <<Line(<<S_auto_cname, S_other_org>>), OneDomain>>,
          <<BlockLine(S_domains, <<<<S_example_com, S_at, S_www, S_api>>>>)>>,
          <<BlockLine(S_domains, <<<<S_empty, S_www>>>>)>>,
          <<BlockLine(S_dns_server, <<<<S_host, S_other_org>>, <<S_user, S_api>>,
                                      <<S_password, S_www>>>>),
            Line(<<S_ttl, <<"1", "h">>>>), OneDomain>>,
          <<BlockLine(S_dns_server, <<<<S_api, S_www>>>>)>>,
          <<Line(<<S_www>>)>>}

Interval(d) == [set |-> TRUE, dur |-> d]

Unset == [set |-> FALSE, dur |-> 0]

\* Native JSON configurations: the members domains, check_interval and
\* auto_cname_zone of the app's object.
JSONConfigs ==
    {[domains |-> [z \in {S_example_com} |-> <<S_api>>], check_interval |-> Unset,
      auto_cname_zone |-> S_example_com],
     [domains |-> NilMap, check_interval |-> Interval(Second),
      auto_cname_zone |-> S_example_com],
     [domains |-> [z \in {S_other_org} |-> <<S_www>>], check_interval |-> Interval(0),
      auto_cname_zone |-> S_example_com],
     [domains |-> NilMap, check_interval |-> Interval(-1),
      auto_cname_zone |-> S_empty]}

RP == "{\"handler\":\"reverse_proxy\"}"

FS == "{\"handler\":\"file_server\"}"

MatchHost(hosts) == [type |-> "MatchHost", hosts |-> hosts]

MatchPath == [type |-> "MatchPath", hosts |-> <<>>]

Route(handlers, matcherSets) == [HandlersRaw |-> handlers, MatcherSets |-> matcherSets]

HTTP(servers) == [err |-> FALSE, Servers |-> servers]

\* The routing tables the discovery is run on.
HTTPApps ==
    {[err |-> TRUE, Servers |-> NilMap],
     HTTP(NilMap),
     HTTP([s \in {"srv0"} |->
        <<Route(<<RP>>, << <<MatchHost(<<S_api_example_com>>)>> >>)>>]),
     HTTP([s \in {"srv0"} |->
        <<Route(<<FS>>, << <<MatchHost(<<S_api_example_com>>)>> >>)>>]),
     HTTP([s \in {"srv0"} |->
        <<Route(<<RP, "{\"handler\":">>, << <<MatchHost(<<S_api_example_com>>)>> >>)>>]),
     HTTP([s \in {"srv0", "srv1"} |->
        IF s = "srv0"
        THEN <<Route(<<FS, RP>>, << <<MatchHost(<<S_www_example_com>>)>> >>)>>
        ELSE <<Route(<<"[1]">>, <<>>)>>]),
     HTTP([s \in {"srv0"} |->
        <<Route(<<RP>>, << <<MatchHost(<<S_example_com, S_xexample_com>>)>> >>)>>]),
     HTTP([s \in {"srv0"} |->
        <<Route(<<RP, RP>>, << <<MatchPath, MatchHost(<<S_api_example_com>>)>> >>)>>]),
     HTTP([s \in {"srv0"} |->
        <<Route(<<"{}", "{\"handler\":7}", "null">>,
                << <<MatchHost(<<S_api_example_com>>)>> >>),
          Route(<<RP>>, << <<MatchPath>>, <<MatchHost(<<S_www_other_org>>)>> >>)>>])}

S_lower_error == <<"e", "r", "r", "o", "r">>

\* What the remote command can print.
Outputs == {S_empty, <<"a", " ">> \o S_Error \o <<":">>, S_lower_error}

\* --------------------------------------------------------------- state

VARIABLES
    phase,       \* the lifecycle: init, loaded, provisioned, started, or a failure
    config,      \* the configuration text the App was built from
    app,         \* the App: DNSServer, Domains, CheckInterval, TTL, AutoCNAMEZone
    http,        \* the HTTP app ctx.App("http") returned to Start
    pc,          \* where the checkerLoop goroutine is: none, launched, updateDNS,
                 \* select (at the select), blocked (in it), tickCase and
                 \* doneCase (woken, the case chosen), done
    passes,      \* the updateDNS calls in progress, each at its current target
    passCount,   \* how many updateDNS calls have begun
    attempts,    \* what the latest updateDNS call has logged, target by target
    lastCall,    \* the latest updateCNAME call that returned: what it met, its error
    ticker,      \* the time.Ticker: none, running, stopped
    tick,        \* the ticks waiting in ticker.C (a channel of capacity 1)
    cancelled,   \* ctx.Done() is closed
    cancelAt,    \* where the loop was when ctx.Done() was closed
    stopCalled,  \* Stop has been invoked
    conns,       \* the ssh connections open
    sessions     \* the ssh sessions open

vars ==
    <<phase, config, app, http, pc, passes, passCount, attempts, lastCall, ticker,
      tick, cancelled, cancelAt, stopCalled, conns, sessions>>

loopVars == <<pc, passes, passCount, attempts, lastCall, ticker, tick, conns, sessions>>

NoConfig == [src |-> "none"]

NoHTTP == [err |-> FALSE, Servers |-> NilMap]

NoCall == [returned |-> FALSE, dialed |-> FALSE, session |-> FALSE, ran |-> FALSE,
           runErr |-> FALSE, output |-> S_empty, err |-> FALSE]

Init ==
    /\ phase = "init"
    /\ config = NoConfig
    /\ app = NewApp
    /\ http = NoHTTP
    /\ pc = "none"
    /\ passes = <<>>
    /\ passCount = 0
    /\ attempts = <<>>
    /\ lastCall = NoCall
    /\ ticker = "none"
    /\ tick = 0
    /\ cancelled = FALSE
    /\ cancelAt = "none"
    /\ stopCalled = FALSE
    /\ conns = 0
    /\ sessions = 0

\* ----------------------------------------------------------- lifecycle

\* The Caddyfile adapter: parseApp on the body of a dynamic_dns block
parseApp ==
    /\ phase = "init"
    /\ \E body \in Caddyfiles :
          LET r == parseAppResult(body)
          IN  /\ config' = [src |-> "Caddyfile", body |-> body]
              /\ phase' = IF r.err THEN "parseFailed" ELSE "loaded"
              /\ app' = IF r.err THEN app ELSE r.app
    /\ UNCHANGED <<http, cancelled, cancelAt, stopCalled>>
    /\ UNCHANGED loopVars

\* The host builds the App from its JSON object (the struct tags of App).
loadJSON ==
    /\ phase = "init"
    /\ \E j \in JSONConfigs :
          /\ config' = [src |-> "JSON", json |-> j]
          /\ app' = [NewApp EXCEPT !.Domains = j.domains,
                                   !.CheckInterval = j.check_interval.dur,
                                   !.AutoCNAMEZone = j.auto_cname_zone]
    /\ phase' = "loaded"
    /\ UNCHANGED <<http, cancelled, cancelAt, stopCalled>>
    /\ UNCHANGED loopVars

\* if a.CheckInterval == 0 { a.CheckInterval = defaultCheckInterval }
intervalOrDefault(interval) ==
    IF interval = 0 THEN defaultCheckInterval ELSE interval

\* A bug: an interval of exactly one second is refused
intervalTooShort_inclusive(interval) == interval <= Second

\* if a.CheckInterval < time.Second { return error }
intervalTooShort(interval) == interval < Second

Provision ==
    /\ phase = "loaded"
    /\ app' = [app EXCEPT !.CheckInterval = intervalOrDefault(app.CheckInterval)]
    /\ phase' = IF intervalTooShort(app'.CheckInterval)
                THEN "provisionFailed" ELSE "provisioned"
    /\ UNCHANGED <<config, http, cancelled, cancelAt, stopCalled>>
    /\ UNCHANGED loopVars

\* A bug: the goroutine is launched whatever the discovery returned
Start_launchAnyway ==
    /\ phase = "provisioned"
    /\ IF app.AutoCNAMEZone # S_empty
       THEN \E h \in HTTPApps : \E order \in RangeOrders(DOMAIN h.Servers) :
               LET r == addReverseProxyCNAMEs(app.Domains, app.AutoCNAMEZone, h, order)
               IN  /\ http' = h
                   /\ app' = [app EXCEPT !.Domains = r.Domains]
                   /\ phase' = IF r.err THEN "startFailed" ELSE "started"
                   /\ pc' = "launched"
       ELSE /\ phase' = "started"
            /\ pc' = "launched"
            /\ UNCHANGED <<app, http>>
    /\ UNCHANGED <<config, cancelled, cancelAt, stopCalled>>
    /\ UNCHANGED <<passes, passCount, attempts, lastCall, ticker, tick, conns, sessions>>

\* Start: the discovery when a zone is set, then "go a.checkerLoop()"
Start ==
    /\ phase = "provisioned"
    /\ IF app.AutoCNAMEZone # S_empty
       THEN \E h \in HTTPApps : \E order \in RangeOrders(DOMAIN h.Servers) :
               LET r == addReverseProxyCNAMEs(app.Domains, app.AutoCNAMEZone, h, order)
               IN  /\ http' = h
                   /\ app' = [app EXCEPT !.Domains = r.Domains]
                   /\ phase' = IF r.err THEN "startFailed" ELSE "started"
                   /\ pc' = IF r.err THEN pc ELSE "launched"
       ELSE /\ phase' = "started"
            /\ pc' = "launched"
            /\ UNCHANGED <<app, http>>
    /\ UNCHANGED <<config, cancelled, cancelAt, stopCalled>>
    /\ UNCHANGED <<passes, passCount, attempts, lastCall, ticker, tick, conns, sessions>>

\* Stop: "return nil"
Stop ==
    /\ phase = "started"
    /\ ~stopCalled
    /\ stopCalled' = TRUE
    /\ UNCHANGED <<phase, config, app, http, cancelled, cancelAt>>
    /\ UNCHANGED loopVars

\* The host cancels the context of the App: ctx.Done() is closed. A loop
\* blocked in its select is woken with the case <-a.ctx.Done() chosen.
Cancel ==
    /\ phase = "started"
    /\ ~cancelled
    /\ cancelled' = TRUE
    /\ cancelAt' = pc
    /\ pc' = IF pc = "blocked" THEN "doneCase" ELSE pc
    /\ UNCHANGED <<phase, config, app, http, stopCalled>>
    /\ UNCHANGED <<passes, passCount, attempts, lastCall, ticker, tick, conns, sessions>>

\* ----------------------------------------------------------- updateDNS

\* allDomains
allDomains(a) == a.Domains

Finished == [fin |-> TRUE, todo |-> {}, zone |-> S_empty, idx |-> 0]

\* The targets the range over the map can reach next once the names of the
\* current zone are used up: the first name of any zone not yet visited (a
\* zone without names has no iteration of the inner loop), or the end.
RECURSIVE nextZone(_, _)
nextZone(domains, todo) ==
    IF todo = {} THEN {Finished}
    ELSE UNION {IF Len(domains[z]) > 0
                THEN {[fin |-> FALSE, todo |-> todo \ {z}, zone |-> z, idx |-> 1]}
                ELSE nextZone(domains, todo \ {z}) : z \in todo}

\* The targets that can follow target idx of zone in the two loops
nextTarget(domains, todo, zone, idx) ==
    IF idx + 1 <= Len(domains[zone])
    THEN {[fin |-> FALSE, todo |-> todo, zone |-> zone, idx |-> idx + 1]}
    ELSE nextZone(domains, todo)

\* a.logger.Error on an error, a.logger.Info without
logLevel(err) == IF err THEN "error" ELSE "info"

\* A bug: the first error ends the pass
afterAttempt_abort(domains, p, err) ==
    IF err THEN {Finished} ELSE nextTarget(domains, p.todo, p.zone, p.idx)

\* A bug: a target whose call failed is tried again at once
afterAttempt_retry(domains, p, err) ==
    IF err
    THEN {[fin |-> FALSE, todo |-> p.todo, zone |-> p.zone, idx |-> p.idx]}
    ELSE nextTarget(domains, p.todo, p.zone, p.idx)

\* The loop goes on to the next target whatever the call returned
afterAttempt(domains, p, err) == nextTarget(domains, p.todo, p.zone, p.idx)

\* A bug: updateDNS is started as a goroutine and the loop selects again
callUpdateDNS_spawn == "select"

\* The checkerLoop goroutine runs updateDNS itself and is inside it until
\* it returns
callUpdateDNS == "updateDNS"

\* updateDNS begins: the first target's updateCNAME dials, or, on a map
\* without names, updateDNS returns at once.
beginUpdateDNS ==
    /\ passCount' = passCount + 1
    /\ attempts' = <<>>
    /\ \E t \in nextZone(allDomains(app), DOMAIN allDomains(app)) :
          IF t.fin
          THEN /\ pc' = "select"
               /\ passes' = passes
          ELSE /\ pc' = callUpdateDNS
               /\ passes' = Append(passes,
                     [id |-> passCount + 1, todo |-> t.todo, zone |-> t.zone,
                      idx |-> t.idx, stage |-> "dial"])

RemoveAt(seq, i) == SubSeq(seq, 1, i - 1) \o SubSeq(seq, i + 1, Len(seq))

\* updateCNAME of pass i returns err: updateDNS logs the outcome and its
\* loops move on; after the last target updateDNS returns to checkerLoop.
returnFromCall(i, err) ==
    LET p == passes[i]
        domains == allDomains(app)
    IN  /\ attempts' = Append(attempts,
              [pass |-> p.id, zone |-> p.zone, idx |-> p.idx,
               name |-> domains[p.zone][p.idx], err |-> err, level |-> logLevel(err)])
        /\ \E t \in afterAttempt(domains, p, err) :
              IF t.fin
              THEN /\ passes' = RemoveAt(passes, i)
                   /\ pc' = "select"
              ELSE /\ passes' = [passes EXCEPT ![i] =
                          [id |-> p.id, todo |-> t.todo, zone |-> t.zone,
                           idx |-> t.idx, stage |-> "dial"]]
                   /\ pc' = pc

\* --------------------------------------------------------- updateCNAME

\* client, err := ssh.Dial(...): on an error the call returns it
dial(i) ==
    /\ passes[i].stage = "dial"
    /\ \E ok \in BOOLEAN :
          IF ok
          THEN /\ passes' = [passes EXCEPT ![i].stage = "session"]
               /\ conns' = conns + 1
               /\ UNCHANGED <<pc, attempts, lastCall>>
          ELSE /\ lastCall' = [NoCall EXCEPT !.returned = TRUE, !.err = TRUE]
               /\ returnFromCall(i, TRUE)
               /\ conns' = conns
    /\ UNCHANGED <<phase, config, app, http, cancelled, cancelAt, stopCalled>>
    /\ UNCHANGED <<passCount, ticker, tick, sessions>>

\* A bug: client.Close() is not deferred, and the return on a session error
\* leaves the connection open
newSession_leak(i) ==
    /\ passes[i].stage = "session"
    /\ \E ok \in BOOLEAN :
          IF ok
          THEN /\ passes' = [passes EXCEPT ![i].stage = "run"]
               /\ sessions' = sessions + 1
               /\ UNCHANGED <<pc, attempts, lastCall, conns>>
          ELSE /\ lastCall' = [NoCall EXCEPT !.returned = TRUE, !.dialed = TRUE,
                                             !.err = TRUE]
               /\ returnFromCall(i, TRUE)
               /\ conns' = conns
               /\ sessions' = sessions
    /\ UNCHANGED <<phase, config, app, http, cancelled, cancelAt, stopCalled>>
    /\ UNCHANGED <<passCount, ticker, tick>>

\* session, err := client.NewSession(): on an error the call returns it, and
\* the deferred client.Close() runs
newSession(i) ==
    /\ passes[i].stage = "session"
    /\ \E ok \in BOOLEAN :
          IF ok
          THEN /\ passes' = [passes EXCEPT ![i].stage = "run"]
               /\ sessions' = sessions + 1
               /\ UNCHANGED <<pc, attempts, lastCall, conns>>
          ELSE /\ lastCall' = [NoCall EXCEPT !.returned = TRUE, !.dialed = TRUE,
                                             !.err = TRUE]
               /\ returnFromCall(i, TRUE)
               /\ conns' = conns - 1
               /\ sessions' = sessions
    /\ UNCHANGED <<phase, config, app, http, cancelled, cancelAt, stopCalled>>
    /\ UNCHANGED <<passCount, ticker, tick>>

\* A bug: the output is not looked at
commandFailed_transportOnly(runErr, output) == runErr

\* The error of updateCNAME once the command has run: a transport error, or
\* an output that contains "Error"
commandFailed(runErr, output) == runErr \/ Contains(output, S_Error)

\* output, err := session.CombinedOutput(fullCmd) and the rest of the call;
\* the deferred session.Close() and client.Close() run on return
combinedOutput(i) ==
    /\ passes[i].stage = "run"
    /\ \E runErr \in BOOLEAN : \E output \in Outputs :
          /\ lastCall' = [returned |-> TRUE, dialed |-> TRUE, session |-> TRUE,
                          ran |-> TRUE, runErr |-> runErr, output |-> output,
                          err |-> commandFailed(runErr, output)]
          /\ returnFromCall(i, commandFailed(runErr, output))
    /\ conns' = conns - 1
    /\ sessions' = sessions - 1
    /\ UNCHANGED <<phase, config, app, http, cancelled, cancelAt, stopCalled>>
    /\ UNCHANGED <<passCount, ticker, tick>>

\* --------------------------------------------------------- checkerLoop

\* A bug: the loop goes to its select first and runs no pass until a tick
checkerLoop_waitFirst ==
    /\ pc = "launched"
    /\ ticker' = "running"
    /\ pc' = "select"
    /\ UNCHANGED <<phase, config, app, http, cancelled, cancelAt, stopCalled>>
    /\ UNCHANGED <<passes, passCount, attempts, lastCall, tick, conns, sessions>>

\* The goroutine starts: time.NewTicker, then the first a.updateDNS()
checkerLoop ==
    /\ pc = "launched"
    /\ ticker' = "running"
    /\ beginUpdateDNS
    /\ UNCHANGED <<phase, config, app, http, cancelled, cancelAt, stopCalled>>
    /\ UNCHANGED <<lastCall, tick, conns, sessions>>

\* The ticker sends a tick: a loop blocked in its select is woken with the
\* case <-ticker.C chosen; otherwise the tick waits in ticker.C, and a tick
\* that finds ticker.C full is dropped.
Tick ==
    /\ ticker = "running"
    /\ tick = 0
    /\ passCount < MaxPasses
    /\ IF pc = "blocked"
       THEN pc' = "tickCase" /\ tick' = tick
       ELSE pc' = pc /\ tick' = 1
    /\ UNCHANGED <<phase, config, app, http, cancelled, cancelAt, stopCalled>>
    /\ UNCHANGED <<passes, passCount, attempts, lastCall, ticker, conns, sessions>>

\* select with a tick waiting: case <-ticker.C: a.updateDNS(). With
\* ctx.Done() closed as well, Go chooses between the two cases at random.
selectTick ==
    /\ pc = "select"
    /\ tick = 1
    /\ tick' = 0
    /\ beginUpdateDNS
    /\ UNCHANGED <<phase, config, app, http, cancelled, cancelAt, stopCalled>>
    /\ UNCHANGED <<lastCall, ticker, conns, sessions>>

\* A bug: "break" in the case leaves the select, not the for: the loop goes
\* round again instead of returning
selectDone_break ==
    /\ pc = "select"
    /\ cancelled
    /\ tick = 0
    /\ pc' = "blocked"
    /\ UNCHANGED <<phase, config, app, http, cancelled, cancelAt, stopCalled>>
    /\ UNCHANGED <<passes, passCount, attempts, lastCall, ticker, tick, conns, sessions>>

\* select with ctx.Done() closed: case <-a.ctx.Done(): return, and the
\* deferred ticker.Stop() runs
selectDone ==
    /\ pc = "select"
    /\ cancelled
    /\ pc' = "done"
    /\ ticker' = "stopped"
    /\ UNCHANGED <<phase, config, app, http, cancelled, cancelAt, stopCalled>>
    /\ UNCHANGED <<passes, passCount, attempts, lastCall, tick, conns, sessions>>

\* select with neither case ready: the goroutine blocks
selectBlock ==
    /\ pc = "select"
    /\ tick = 0
    /\ ~cancelled
    /\ pc' = "blocked"
    /\ UNCHANGED <<phase, config, app, http, cancelled, cancelAt, stopCalled>>
    /\ UNCHANGED <<passes, passCount, attempts, lastCall, ticker, tick, conns, sessions>>

\* A bug: the loop runs the discovery again before the pass of each tick
wokenByTick_rediscover ==
    /\ pc = "tickCase"
    /\ \E order \in RangeOrders(DOMAIN http.Servers) :
          app' = [app EXCEPT !.Domains =
                     addReverseProxyCNAMEs(app.Domains, app.AutoCNAMEZone, http, order).Domains]
    /\ beginUpdateDNS
    /\ UNCHANGED <<phase, config, http, cancelled, cancelAt, stopCalled>>
    /\ UNCHANGED <<lastCall, ticker, tick, conns, sessions>>

\* The loop woken by a tick runs: a.updateDNS()
wokenByTick ==
    /\ pc = "tickCase"
    /\ beginUpdateDNS
    /\ UNCHANGED <<phase, config, app, http, cancelled, cancelAt, stopCalled>>
    /\ UNCHANGED <<lastCall, ticker, tick, conns, sessions>>

\* The loop woken by ctx.Done() runs: return, and the deferred ticker.Stop()
wokenByDone ==
    /\ pc = "doneCase"
    /\ pc' = "done"
    /\ ticker' = "stopped"
    /\ UNCHANGED <<phase, config, app, http, cancelled, cancelAt, stopCalled>>
    /\ UNCHANGED <<passes, passCount, attempts, lastCall, tick, conns, sessions>>

Next ==
    \/ parseApp
    \/ loadJSON
    \/ Provision
    \/ Start
    \/ Stop
    \/ Cancel
    \/ checkerLoop
    \/ Tick
    \/ selectTick
    \/ selectDone
    \/ selectBlock
    \/ wokenByTick
    \/ wokenByDone
    \/ \E i \in 1..Len(passes) : dial(i)
    \/ \E i \in 1..Len(passes) : newSession(i)
    \/ \E i \in 1..Len(passes) : combinedOutput(i)

Spec == Init /\ [][Next]_vars

\* The goroutine of checkerLoop takes its next step outside updateCNAME
LoopStep ==
    \/ checkerLoop
    \/ selectTick
    \/ selectDone
    \/ selectBlock
    \/ wokenByTick
    \/ wokenByDone

\* The updateCNAME call in progress takes its next step: the dial, the
\* session and the command each return
CallStep ==
    \/ \E i \in 1..Len(passes) : dial(i)
    \/ \E i \in 1..Len(passes) : newSession(i)
    \/ \E i \in 1..Len(passes) : combinedOutput(i)

\* The steps of the program whose App the host builds from its JSON object
LiveNext ==
    \/ loadJSON
    \/ Provision
    \/ Start
    \/ Stop
    \/ Cancel
    \/ Tick
    \/ LoopStep
    \/ CallStep

\* The program, configured in JSON, under a fair scheduler: the goroutine of
\* the loop is run whenever it can take a step, every remote operation
\* returns, and the random choice of a select whose ctx.Done() case is ready
\* again and again does not avoid that case for ever.
LiveSpec ==
    /\ Init
    /\ [][LiveNext]_vars
    /\ WF_vars(LoopStep)
    /\ WF_vars(CallStep)
    /\ SF_vars(selectDone)

\* ----------------------------------------- addReverseProxyCNAMEs, twice

\* The maps and zones an App can hold when its discovery is invoked
DiscoveryMaps ==
    {NilMap,
     [z \in {S_example_com} |-> <<S_api>>],
     [z \in {S_example_com} |-> <<S_at, S_www>>],
     [z \in {S_other_org} |-> <<S_www>>]}

DiscoveryZones == {S_example_com, S_other_org}

\* A provisioned App with a discovery zone, and the routing table that
\* ctx.App("http") will return to every invocation
TwiceInit ==
    /\ phase = "provisioned"
    /\ config = NoConfig
    /\ \E m \in DiscoveryMaps : \E zone \in DiscoveryZones :
          app = [NewApp EXCEPT !.Domains = m, !.AutoCNAMEZone = zone,
                               !.CheckInterval = defaultCheckInterval]
    /\ http \in HTTPApps
    /\ pc = "none"
    /\ passes = <<>>
    /\ passCount = 0
    /\ attempts = <<>>
    /\ lastCall = NoCall
    /\ ticker = "none"
    /\ tick = 0
    /\ cancelled = FALSE
    /\ cancelAt = "none"
    /\ stopCalled = FALSE
    /\ conns = 0
    /\ sessions = 0

\* The first invocation of a.addReverseProxyCNAMEs(): the map is appended to
\* in place
discoverOnce ==
    /\ phase = "provisioned"
    /\ \E order \in RangeOrders(DOMAIN http.Servers) :
          LET r == addReverseProxyCNAMEs(app.Domains, app.AutoCNAMEZone, http, order)
          IN  /\ app' = [app EXCEPT !.Domains = r.Domains]
              /\ phase' = IF r.err THEN "discoveryFailed" ELSE "discovered"
    /\ UNCHANGED <<config, http, cancelled, cancelAt, stopCalled>>
    /\ UNCHANGED loopVars

\* A second invocation on the App as the first left it, the routing table
\* unchanged in between
discoverAgain ==
    /\ phase = "discovered"
    /\ \E order \in RangeOrders(DOMAIN http.Servers) :
          LET r == addReverseProxyCNAMEs(app.Domains, app.AutoCNAMEZone, http, order)
          IN  /\ app' = [app EXCEPT !.Domains = r.Domains]
              /\ phase' = IF r.err THEN "discoveryFailed" ELSE "discoveredTwice"
    /\ UNCHANGED <<config, http, cancelled, cancelAt, stopCalled>>
    /\ UNCHANGED loopVars

TwiceNext ==
    \/ discoverOnce
    \/ discoverAgain

TwiceSpec == TwiceInit /\ [][TwiceNext]_vars

\* ============================================================== claims

\* updateDNS has returned at least once and none is in progress
PassFinished ==
    /\ passCount >= 1
    /\ passes = <<>>
    /\ pc \in {"select", "blocked", "tickCase", "doneCase", "done"}

\* The targets of the map: every position of every zone's list
Targets(domains) ==
    UNION {{<<z, k>> : k \in 1..Len(domains[z])} : z \in DOMAIN domains}

AttemptsOf(z, k) == {j \in DOMAIN attempts : attempts[j].zone = z /\ attempts[j].idx = k}

\* C1: Pass isolation. In every pass, whichever updateCNAME calls fail, no
\* target is attempted twice; when the pass has returned every target of the map
\* has been attempted exactly once and nothing else has; each attempt is logged
\* as an error exactly when its own call returned an error, and the entry of the
\* latest attempt carries the error of the latest call.
PassIsolation ==
    /\ \A j, k \in DOMAIN attempts :
          (attempts[j].zone = attempts[k].zone /\ attempts[j].idx = attempts[k].idx) => j = k
    /\ \A j \in DOMAIN attempts :
          /\ <<attempts[j].zone, attempts[j].idx>> \in Targets(app.Domains)
          /\ attempts[j].name = app.Domains[attempts[j].zone][attempts[j].idx]
          /\ (attempts[j].level = "error") <=> attempts[j].err
          /\ (attempts[j].level = "info") <=> ~attempts[j].err
    /\ attempts # <<>> => (lastCall.returned /\ attempts[Len(attempts)].err = lastCall.err)
    /\ PassFinished =>
          \A t \in Targets(app.Domains) : Cardinality(AttemptsOf(t[1], t[2])) = 1

\* C1 witness: a pass over three targets has returned; the second target
\* failed, the first and the third succeeded.
PassIsolationWitness ==
    /\ PassFinished
    /\ Len(attempts) = 3
    /\ ~attempts[1].err /\ attempts[2].err /\ ~attempts[3].err
    /\ attempts[1].level = "info" /\ attempts[2].level = "error"
    /\ attempts[3].level = "info"

\* The distinct (zone, name) pairs of the map
Pairs(domains) ==
    UNION {{<<z, domains[z][k]>> : k \in 1..Len(domains[z])} : z \in DOMAIN domains}

\* C2: Flattening is exact. When a pass has returned, its attempts hold exactly
\* one target per distinct (zone, name) pair of the map, and no other target.
FlatteningExact ==
    PassFinished =>
       /\ \A pr \in Pairs(app.Domains) :
             Cardinality({j \in DOMAIN attempts :
                 attempts[j].zone = pr[1] /\ attempts[j].name = pr[2]}) = 1
       /\ \A j \in DOMAIN attempts :
             <<attempts[j].zone, attempts[j].name>> \in Pairs(app.Domains)

\* The check interval the configuration gives: [set, dur], set when the
\* Caddyfile has a check_interval line or the JSON object the member.
GivenInterval ==
    IF config.src = "JSON" THEN config.json.check_interval
    ELSE IF \E ln \in DOMAIN config.body : config.body[ln].toks[1] = S_check_interval
    THEN LET ln == CHOOSE ln \in DOMAIN config.body :
                      config.body[ln].toks[1] = S_check_interval
         IN  Interval(ParseDuration(config.body[ln].toks[2]).dur)
    ELSE Unset

\* Provision has run, and how it ended
Provisioned == phase \in {"provisioned", "started", "startFailed"}

ProvisionRan == Provisioned \/ phase = "provisionFailed"

\* C3 as stated: an interval of 0 or less makes Provision fail; one of 1 second
\* or more makes it succeed with the interval stored as given; an unset one
\* makes it succeed with the default of 30 minutes stored.
ProvisionIntervalAsStated ==
    ProvisionRan =>
       /\ (GivenInterval.set /\ GivenInterval.dur <= 0) => phase = "provisionFailed"
       /\ (GivenInterval.set /\ GivenInterval.dur >= Second) =>
             (Provisioned /\ app.CheckInterval = GivenInterval.dur)
       /\ ~GivenInterval.set =>
             (Provisioned /\ app.CheckInterval = 30 * 60 * 1000)

\* C3 as amended: a negative interval makes Provision fail; one of 1 second or
\* more makes it succeed with the interval stored as given; an unset one, and
\* one given as 0, makes it succeed with the default of 30 minutes stored.
ProvisionInterval ==
    ProvisionRan =>
       /\ (GivenInterval.set /\ GivenInterval.dur < 0) => phase = "provisionFailed"
       /\ (GivenInterval.set /\ GivenInterval.dur >= Second) =>
             (Provisioned /\ app.CheckInterval = GivenInterval.dur)
       /\ (~GivenInterval.set \/ GivenInterval.dur = 0) =>
             (Provisioned /\ app.CheckInterval = 30 * 60 * 1000)

\* C3 witness: Provision has succeeded on an interval given as 0 and has
\* stored the default.
ProvisionIntervalWitness ==
    /\ phase = "provisioned"
    /\ GivenInterval.set
    /\ GivenInterval.dur = 0
    /\ app.CheckInterval = 30 * 60 * 1000

\* The output has "Error" somewhere in it
HasErrorMarker(output) ==
    \E i \in 1..Len(output) : \E j \in i..Len(output) :
       SubSeq(output, i, j) = <<"E", "r", "r", "o", "r">>

\* C4: Outcome classification. An updateCNAME call that has returned returned
\* an error exactly when the dial failed, or the session could not be created,
\* or the command returned a transport error, or its output contains "Error".
OutcomeClassification ==
    lastCall.returned =>
       (lastCall.err <=>
           \/ ~lastCall.dialed
           \/ ~lastCall.session
           \/ lastCall.runErr
           \/ HasErrorMarker(lastCall.output))

\* C4 witness: a call whose command ran without a transport error and printed
\* a text with "Error" inside it has returned an error.
OutcomeClassificationWitness ==
    /\ lastCall.returned
    /\ lastCall.ran
    /\ ~lastCall.runErr
    /\ lastCall.output = <<"a", " ", "E", "r", "r", "o", "r", ":">>
    /\ lastCall.err

\* Idle: the loop is between two passes, at its select, blocked in it, or
\* woken from it by a tick and not yet running
Idle == {"select", "blocked", "tickCase"}

\* C5: Cancellation while Idle. Once ctx.Done() has been closed with the loop
\* Idle, no further pass begins, whether or not a tick was pending.
CancelIdleStartsNoPass ==
    [][(cancelAt \in Idle) => (passCount' = passCount)]_vars

\* C6: No pass overlap. At most one updateDNS call is in progress, and the
\* loop is inside it; at most one connection and one session are open; every
\* attempt logged since the latest pass began is an attempt of that pass.
NoPassOverlap ==
    /\ Len(passes) <= 1
    /\ conns <= 1
    /\ sessions <= 1
    /\ \A i \in DOMAIN passes : passes[i].id = passCount /\ pc = "updateDNS"
    /\ \A j \in DOMAIN attempts : attempts[j].pass = passCount

\* C6 witness: a tick is waiting in ticker.C while the first pass is in the
\* middle of an updateCNAME call.
NoPassOverlapWitness ==
    /\ Len(passes) = 1
    /\ passes[1].stage = "run"
    /\ tick = 1
    /\ passCount = 1

\* Every handler of the routing table decodes
WellFormed(h) ==
    /\ ~h.err
    /\ \A srv \in DOMAIN h.Servers : \A r \in DOMAIN h.Servers[srv] :
          \A k \in DOMAIN h.Servers[srv][r].HandlersRaw :
             ~Unmarshal(h.Servers[srv][r].HandlersRaw[k]).err

\* The hosts of the host matchers of the routes that have a reverse_proxy handler
ProxiedHosts(h) ==
    UNION {UNION {UNION {UNION {
        {h.Servers[srv][r].MatcherSets[ms][m].hosts[k] :
            k \in DOMAIN h.Servers[srv][r].MatcherSets[ms][m].hosts}
        : m \in {m \in DOMAIN h.Servers[srv][r].MatcherSets[ms] :
                   h.Servers[srv][r].MatcherSets[ms][m].type = "MatchHost"}}
        : ms \in DOMAIN h.Servers[srv][r].MatcherSets}
        : r \in {r \in DOMAIN h.Servers[srv] :
                   \E k \in DOMAIN h.Servers[srv][r].HandlersRaw :
                      h.Servers[srv][r].HandlersRaw[k] = "{\"handler\":\"reverse_proxy\"}"}}
        : srv \in DOMAIN h.Servers}

\* host without a trailing ".<zone>"
Stripped(host, zone) ==
    IF \E n \in 0..Len(host) : host = SubSeq(host, 1, n) \o <<".">> \o zone
    THEN SubSeq(host, 1, Len(host) - Len(zone) - 1)
    ELSE host

NamesOf(domains, zone) ==
    IF zone \in DOMAIN domains
    THEN {domains[zone][k] : k \in DOMAIN domains[zone]}
    ELSE {}

\* Start runs the discovery in this step, on a table whose handlers all decode
DiscoveryStep ==
    /\ phase = "provisioned"
    /\ phase' \in {"started", "startFailed"}
    /\ app.AutoCNAMEZone # <<>>

\* C7: Auto-discovery result. A discovery over a routing table whose handlers
\* all decode succeeds and leaves the map as it was but for the discovery zone,
\* whose names are the names it had, followed by names that are exactly the
\* hosts of the host matchers of the routes with a reverse_proxy handler, each
\* without its trailing ".<zone>"; with no such host the map is unchanged.
DiscoveryResult ==
    [][(DiscoveryStep /\ WellFormed(http')) =>
        LET zone == app.AutoCNAMEZone
            pre == app.Domains
            post == app'.Domains
            found == {Stripped(host, zone) : host \in ProxiedHosts(http')}
            had == IF zone \in DOMAIN pre THEN pre[zone] ELSE <<>>
        IN  /\ phase' = "started"
            /\ DOMAIN post = DOMAIN pre \cup (IF found = {} THEN {} ELSE {zone})
            /\ \A z \in DOMAIN pre : z # zone => post[z] = pre[z]
            /\ zone \in DOMAIN post =>
                  /\ SubSeq(post[zone], 1, Len(had)) = had
                  /\ NamesOf(post, zone) = NamesOf(pre, zone) \cup found
                  /\ {post[zone][k] : k \in (Len(had) + 1)..Len(post[zone])} = found
       ]_vars

\* C7 witness: the discovery has run with zone "example.com" on an empty map
\* and a table whose one route has a reverse_proxy handler and a host matcher
\* with "api.example.com"; the map holds "example.com" with the name "api".
DiscoveryResultWitness ==
    /\ phase = "started"
    /\ config.src = "JSON"
    /\ config.json.domains = NilMap
    /\ app.AutoCNAMEZone = S_example_com
    /\ ProxiedHosts(http) = {S_api_example_com}
    /\ DOMAIN app.Domains = {S_example_com}
    /\ app.Domains[S_example_com] = <<S_api>>

\* C8: Discovery fails as a whole. A discovery that returns an error leaves
\* the map as it was before the call.
DiscoveryFailsWhole ==
    [][(DiscoveryStep /\ phase' = "startFailed") => (app'.Domains = app.Domains)]_vars

\* The arguments written after auto_cname in the Caddyfile, if it has the line
AutoCNAMEArgs ==
    IF config.src = "Caddyfile"
       /\ \E ln \in DOMAIN config.body : config.body[ln].toks[1] = S_auto_cname
    THEN Tail(config.body[CHOOSE ln \in DOMAIN config.body :
                              config.body[ln].toks[1] = S_auto_cname].toks)
    ELSE <<>>

\* C9: Configuration of auto-discovery. The App parseApp produced from a
\* Caddyfile with "auto_cname <zone>" has AutoCNAMEZone equal to <zone>.
AutoCNAMEZoneIsArgument ==
    (phase \notin {"init", "parseFailed"} /\ AutoCNAMEArgs # <<>>) =>
        app.AutoCNAMEZone = AutoCNAMEArgs[1]

\* C10: Stop signals cancellation. Once Stop has been invoked ctx.Done() is
\* closed.
StopSignalsCancellation == stopCalled => cancelled

\* The loop is at or past its select
AtOrPastSelect == {"select", "blocked", "tickCase", "doneCase", "done"}

\* This step takes a tick out of ticker.C, or hands one to the blocked loop
ConsumesTick ==
    \/ pc = "select" /\ tick = 1 /\ tick' = 0
    \/ pc = "blocked" /\ pc' = "tickCase"

\* Every target of the map has an attempt of pass id in the log
AllAttemptedIn(id) ==
    \A t \in Targets(app.Domains) :
       \E j \in DOMAIN attempts :
          attempts[j].pass = id /\ attempts[j].zone = t[1] /\ attempts[j].idx = t[2]

\* C11: Immediate first pass. The first step of the launched loop begins pass
\* 1, before any wait; the loop reaches its select (Idle, or its end) only with
\* a pass behind it and none in progress; and whenever a tick is consumed, and
\* whenever pass 2 begins, pass 1 has returned with every target attempted.
ImmediateFirstPass ==
    [][/\ (pc = "launched" /\ pc' # pc) =>
              /\ passCount = 0 /\ passCount' = 1
              /\ tick' = tick
              /\ IF Targets(app.Domains) = {}
                 THEN pc' = "select" /\ passes' = <<>>
                 ELSE pc' = "updateDNS" /\ Len(passes') = 1 /\ passes'[1].id = 1
       /\ (pc' \in AtOrPastSelect) => (passCount' >= 1 /\ passes' = <<>>)
       /\ (ConsumesTick \/ (passCount >= 1 /\ passCount' > passCount)) =>
              /\ PassFinished
              /\ passCount = 1 => AllAttemptedIn(1)
      ]_vars

\* C11 witness: the loop is blocked in its select for the first time: pass 1
\* has returned with its two or more targets attempted, and no tick has been
\* consumed.
ImmediateFirstPassWitness ==
    /\ pc = "blocked"
    /\ passCount = 1
    /\ tick = 0
    /\ Len(attempts) >= 2
    /\ AllAttemptedIn(1)

\* C12: Cancellation while Reconciling. Once ctx.Done() has been closed during
\* a pass, the updateCNAME call in flight still returns and is logged, and that
\* is the end of the work: its return ends the pass with no call begun for a
\* further target, and no further pass begins.
CancelReconcilingStopsWork ==
    [][(cancelAt = "updateDNS") =>
          /\ passCount' = passCount
          /\ Len(attempts') > Len(attempts) => (passes' = <<>> /\ pc' = "select")
      ]_vars

\* C13: Eventual termination. Under a fair scheduler and with every
\* updateCNAME call returning, once ctx.Done() is closed, in a pass or between
\* passes, checkerLoop eventually returns; and once it has returned no pass
\* and no updateCNAME call begins, nothing is logged and nothing is opened.
EventualTermination ==
    /\ cancelled ~> (pc = "done")
    /\ [][(pc = "done") =>
            /\ pc' = "done"
            /\ passes = <<>> /\ passes' = <<>>
            /\ passCount' = passCount
            /\ attempts' = attempts
            /\ lastCall' = lastCall
            /\ conns' = conns /\ sessions' = sessions
         ]_vars

\* C13 witness: ctx.Done() was closed in the middle of a pass, and the loop
\* has returned, with the ticker stopped and nothing in progress.
EventualTerminationWitness ==
    /\ cancelAt = "updateDNS"
    /\ pc = "done"
    /\ ticker = "stopped"
    /\ passes = <<>>
    /\ attempts # <<>>

\* C14: Discovery failure is fatal to startup. With a zone configured, Start
\* fails exactly when the discovery returns an error (the http app missing or a
\* handler that does not decode); after a failed Start the loop is never
\* launched and no updateCNAME call is ever made; the loop is launched only by
\* a Start whose discovery succeeded or was not configured; and once Start has
\* returned, no discovery runs again: the map and the routing table read stay.
DiscoveryFailureIsFatal ==
    [][/\ DiscoveryStep => ((phase' = "startFailed") <=> ~WellFormed(http'))
       /\ (phase' = "startFailed") =>
              /\ pc' = "none" /\ ticker' = "none"
              /\ passCount' = 0 /\ passes' = <<>> /\ attempts' = <<>>
              /\ lastCall' = NoCall /\ conns' = 0 /\ sessions' = 0
       /\ (pc = "none" /\ pc' # "none") =>
              /\ phase = "provisioned" /\ phase' = "started" /\ pc' = "launched"
              /\ app.AutoCNAMEZone = <<>> \/ WellFormed(http')
       /\ (phase \in {"started", "startFailed"}) =>
              /\ phase' = phase
              /\ app' = app
              /\ http' = http
      ]_vars

\* C14 witness: Start has failed on a routing table with a handler that does
\* not decode; the map has targets, and the loop was not launched.
DiscoveryFailureIsFatalWitness ==
    /\ phase = "startFailed"
    /\ app.AutoCNAMEZone # <<>>
    /\ ~http.err
    /\ ~WellFormed(http)
    /\ Targets(app.Domains) # {}
    /\ pc = "none"
    /\ passCount = 0

\* C15: Discovery is idempotent. With the routing table unchanged in between,
\* a second invocation of addReverseProxyCNAMEs leaves the map, and so the
\* targets of a pass, as the first invocation left them.
DiscoveryIdempotent ==
    [][(phase = "discovered" /\ phase' = "discoveredTwice") =>
          /\ app'.Domains = app.Domains
          /\ Targets(app'.Domains) = Targets(app.Domains)
      ]_vars

\* name is a fully-qualified hostname rather than a label relative to zone:
\* the zone itself, a name that ends in ".<zone>", or a host of a host
\* matcher of the routing table stored as it is written there
Qualified(name, zone) ==
    \/ name = zone
    \/ HasSuffix(name, <<".">> \o zone)
    \/ name \in ProxiedHosts(http)

\* C16: Record names are local labels. Every name the map holds under a zone
\* is "@" or a label relative to that zone, never a fully-qualified hostname;
\* this holds for the names the discovery adds whether the matched host is a
\* subdomain of the zone, the zone itself, or outside the zone.
RecordNamesAreLabels ==
    \A zone \in DOMAIN app.Domains : \A k \in DOMAIN app.Domains[zone] :
       \/ app.Domains[zone][k] = S_at
       \/ ~Qualified(app.Domains[zone][k], zone)

\* C17: The map is written before the loop and read-only after. Every step
\* that changes the map is a step of loading or of Start, taken while no loop
\* goroutine exists and no pass has begun; from the launch on the map never
\* changes, and a step of a pass leaves the whole App as it was.
DomainMapReadOnly ==
    [][/\ (app'.Domains # app.Domains) =>
              /\ pc = "none"
              /\ passCount = 0
              /\ phase \in {"init", "provisioned"}
       /\ (pc # "none") => (app'.Domains = app.Domains)
       /\ (pc = "updateDNS" \/ pc' = "updateDNS") => (app' = app)
      ]_vars

\* C17 witness: the discovery has added names to the map, the loop was
\* launched after it, and two passes over the map have returned.
DomainMapReadOnlyWitness ==
    /\ phase = "started"
    /\ app.AutoCNAMEZone # <<>>
    /\ ProxiedHosts(http) # {}
    /\ config.src = "JSON"
    /\ app.Domains # config.json.domains
    /\ passCount = 2
    /\ PassFinished
    /\ AllAttemptedIn(2)

\* The target whose updateCNAME call is in progress has no attempt in the log
\* of the pass yet
InProgressIsFresh ==
    \A i \in DOMAIN passes : AttemptsOf(passes[i].zone, passes[i].idx) = {}

\* C18: Retry only by schedule. Within a pass no target is attempted twice,
\* failed or not: a call that returns, with or without an error, is followed by
\* a call for a target not yet attempted, or by the end of the pass. A pass
\* begins only at the launch or by consuming a tick. Every pass, whatever the
\* calls before it returned, begins with an empty log at a first target, can
\* always take its next step, and when it has returned has attempted every
\* target exactly once.
RetryOnlyBySchedule ==
    /\ [](passes # <<>> => ENABLED CallStep)
    /\ [][/\ InProgressIsFresh'
          /\ \A j, k \in DOMAIN attempts' :
                (attempts'[j].zone = attempts'[k].zone
                   /\ attempts'[j].idx = attempts'[k].idx) => j = k
          /\ (passCount' > passCount) =>
                /\ \/ pc = "launched"
                   \/ pc = "select" /\ tick = 1 /\ tick' = 0
                   \/ pc = "tickCase"
                /\ passes = <<>>
                /\ attempts' = <<>>
                /\ IF Targets(app.Domains) = {}
                   THEN passes' = <<>>
                   ELSE Len(passes') = 1 /\ passes'[1].idx = 1 /\ passes'[1].stage = "dial"
          /\ (Len(attempts') > Len(attempts)) =>
                /\ attempts'[Len(attempts')].err = lastCall'.err
                /\ passes' # <<>> \/ AllAttemptedIn(passCount)'
          /\ PassFinished' =>
                \A t \in Targets(app.Domains) : Cardinality(AttemptsOf(t[1], t[2])') = 1
         ]_vars

\* C18 witness: the only target of the map failed in pass 1 (its call, the
\* latest to return, returned an error), a tick was consumed, and pass 2 is
\* inside its call for that target.
RetryOnlyByScheduleWitness ==
    /\ Cardinality(Targets(app.Domains)) = 1
    /\ passCount = 2
    /\ Len(passes) = 1
    /\ passes[1].stage = "run"
    /\ attempts = <<>>
    /\ lastCall.returned
    /\ lastCall.err

\* C19: Guaranteed release. An updateCNAME call begins with no connection and
\* no session open, holds one connection once it has dialed and one session
\* once it has created it, and on every return, with or without an error, has
\* closed both: at most one of each is ever open, and none is open when no
\* call is in progress, so none when the loop is Idle or has returned.
GuaranteedRelease ==
    /\ conns \in {0, 1}
    /\ sessions \in {0, 1}
    /\ sessions <= conns
    /\ \A i \in DOMAIN passes :
          /\ passes[i].stage = "dial" => (conns = 0 /\ sessions = 0)
          /\ passes[i].stage = "session" => (conns = 1 /\ sessions = 0)
          /\ passes[i].stage = "run" => (conns = 1 /\ sessions = 1)
    /\ (passes = <<>>) => (conns = 0 /\ sessions = 0)
    /\ (pc \in Idle \cup {"none", "launched", "doneCase", "done"}) =>
          (conns = 0 /\ sessions = 0)

\* C19 witness: the latest call dialed, failed to create its session and
\* returned the error; the loop is Idle and nothing is open.
GuaranteedReleaseWitness ==
    /\ lastCall.returned
    /\ lastCall.dialed
    /\ ~lastCall.session
    /\ lastCall.err
    /\ pc \in Idle
    /\ conns = 0
    /\ sessions = 0

====
